---- MODULE Spec2Model ----
(***************************************************************************)
(* A model of miblab's dataset functions (src/src/miblab/data.py):         *)
(* zenodo_fetch, rat_fetch, osf_fetch and osf_upload, over a local          *)
(* filesystem made of a set of directories and a map from file paths to     *)
(* file contents, and a remote storage made of a folder tree and file data. *)
(* A path is a sequence of names, a file content is a tuple of strings.     *)
(***************************************************************************)
EXTENDS Integers, Sequences, FiniteSets, TLC

VARIABLES
    fs,         \* local filesystem: [dirs: set of paths, files: path -> content]
    hist,       \* the calls made so far, oldest first, with what each did
    registry,   \* RAT_PROJECTS: ordered mapping group name -> list of filenames
    remote,     \* Zenodo's answer per rat filename: "ok", "conn" or "http"
    pc,         \* concurrent zenodo_fetch callers: the line each is at
    got,        \* concurrent zenodo_fetch callers: what each ended with
    storage     \* the OSF project's 'osfstorage': its folder tree and file data

vars == <<fs, hist, registry, remote, pc, got, storage>>

\* Number of library calls in one behaviour.
MaxCalls == 2

\* Python's None, as an argument value.
None == "<None>"

(***************************************************************************)
(* The local filesystem (os.path.exists, os.makedirs, open(..., 'wb')).     *)
(***************************************************************************)
Join(folder, name) == Append(folder, name)

Exists(f, p) == p \in f.dirs \/ p \in DOMAIN f.files

Prefixes(p) == {SubSeq(p, 1, k) : k \in 1..Len(p)}

\* os.makedirs creates the directory and every missing parent.
MakeDirs(f, p) == [f EXCEPT !.dirs = @ \cup Prefixes(p)]

\* open(p, 'wb') followed by write(c) and close.
WriteFile(f, p, c) == [f EXCEPT !.files = (p :> c) @@ @]

EmptyFs == [dirs |-> {}, files |-> <<>>]

(***************************************************************************)
(* Zenodo: registry of miblab datasets, URL template and responses.         *)
(***************************************************************************)
DOI == [MRR |-> "15285017", TRISTAN |-> "15301607", RAT |-> "10675642"]

DATASETS ==
    [ds \in {"KRUK.dmr.zip"} |-> [doi |-> DOI.MRR]] @@
    [ds \in {"tristan_humans_healthy_controls.dmr.zip",
             "tristan_humans_healthy_ciclosporin.dmr.zip",
             "tristan_humans_healthy_metformin.dmr.zip",
             "tristan_humans_healthy_rifampicin.dmr.zip",
             "tristan_humans_patients_rifampicin.dmr.zip",
             "tristan_rats_healthy_multiple_dosing.dmr.zip",
             "tristan_rats_healthy_reproducibility.dmr.zip",
             "tristan_rats_healthy_six_drugs.dmr.zip"} |-> [doi |-> DOI.TRISTAN]]

\* "https://zenodo.org/records/" + doi + "/files/" + dataset
FileUrl(doi, dataset) == <<"https://zenodo.org/records", doi, "files", dataset>>

\* What requests.get does: "ok" (2xx), "conn" (ConnectionError), "http" (non-2xx).
Responses == {"ok", "conn", "http"}

\* response.content of a successful GET of url.
Body(url) == <<"content">> \o url

\* A file that was on disk before any call.
OldContent == <<"old">>

(***************************************************************************)
(* zenodo_fetch, as one call: resp is the answer requests.get gives if the  *)
(* call gets as far as making the request.                                  *)
(***************************************************************************)
\* What a call did: how it ended (status "return" or the exception raised), the
\* value returned, the filesystem it left, the URLs it requested in order, and
\* its requests and writes in order, each <<kind, position, object>>, position
\* being the iteration of the file loop it belongs to.
Result(status, ret, f, reqs, events) ==
    [status |-> status, ret |-> ret, fs |-> f, reqs |-> reqs, events |-> events]

ZResult(status, ret, f, reqs) ==
    Result(status, ret, f, reqs, [i \in 1..Len(reqs) |-> <<"get", 1, reqs[i]>>])

\* zenodo_fetch without the presence test of lines 74-75.  C1 must tell it from
\* zenodo_fetch.
zenodo_fetch_nocheck(dataset, folder, doi, filename, f, resp) ==
    LET file == IF filename = None THEN Join(folder, dataset)
                ELSE Join(folder, filename)
        d    == IF doi = None THEN DATASETS[dataset].doi ELSE doi
        url  == FileUrl(d, dataset)
    IN  IF doi = None /\ dataset \notin DOMAIN DATASETS
        THEN ZResult("ValueError", <<>>, f, <<>>)
        ELSE IF resp = "conn"
        THEN ZResult("requests.ConnectionError", <<>>, f, <<url>>)
        ELSE IF resp = "http"
        THEN ZResult("requests.HTTPError", <<>>, f, <<url>>)
        ELSE ZResult("return", file,
                     WriteFile(IF Exists(f, folder) THEN f ELSE MakeDirs(f, folder),
                               file, Body(url)),
                     <<url>>)

\* zenodo_fetch with the folder made before the request instead of after the
\* response.  C15 must tell it from zenodo_fetch.
zenodo_fetch_mkdir_first(dataset, folder, doi, filename, f, resp) ==
    LET file == IF filename = None THEN Join(folder, dataset)
                ELSE Join(folder, filename)
        d    == IF doi = None THEN DATASETS[dataset].doi ELSE doi
        url  == FileUrl(d, dataset)
        f1   == IF Exists(f, folder) THEN f ELSE MakeDirs(f, folder)
    IN  IF Exists(f, file)
        THEN ZResult("return", file, f, <<>>)
        ELSE IF doi = None /\ dataset \notin DOMAIN DATASETS
        THEN ZResult("ValueError", <<>>, f, <<>>)
        ELSE IF resp = "conn"
        THEN ZResult("requests.ConnectionError", <<>>, f1, <<url>>)
        ELSE IF resp = "http"
        THEN ZResult("requests.HTTPError", <<>>, f1, <<url>>)
        ELSE ZResult("return", file, WriteFile(f1, file, Body(url)), <<url>>)

\* zenodo_fetch, as one call (lines 67-113).
zenodo_fetch(dataset, folder, doi, filename, f, resp) ==
    LET file == IF filename = None THEN Join(folder, dataset)
                ELSE Join(folder, filename)
        d    == IF doi = None THEN DATASETS[dataset].doi ELSE doi
        url  == FileUrl(d, dataset)
    IN  IF Exists(f, file)
        THEN ZResult("return", file, f, <<>>)
        ELSE IF doi = None /\ dataset \notin DOMAIN DATASETS
        THEN ZResult("ValueError", <<>>, f, <<>>)
        ELSE IF resp = "conn"
        THEN ZResult("requests.ConnectionError", <<>>, f, <<url>>)
        ELSE IF resp = "http"
        THEN ZResult("requests.HTTPError", <<>>, f, <<url>>)
        ELSE ZResult("return", file,
                     WriteFile(IF Exists(f, folder) THEN f ELSE MakeDirs(f, folder),
                               file, Body(url)),
                     <<url>>)

\* Arguments the calls are made with.
ZDatasets  == {"KRUK.dmr.zip", "external.zip"}
ZFolders   == {<<"dl">>}
ZDois      == {None, "999"}
ZFilenames == {None, "local.zip"}

ZFilePaths == {Join(d, n) : d \in ZFolders, n \in ZDatasets \cup (ZFilenames \ {None})}

\* The filesystems a first call can find: any of the target files may be there
\* already (and then so is its folder); the folder may exist empty.
InitialFs(folders, paths) ==
    {[dirs |-> ds, files |-> [p \in ps |-> OldContent]] :
        ds \in SUBSET folders, ps \in SUBSET paths}

WellFormedFs(f) ==
    \A p \in DOMAIN f.files : SubSeq(p, 1, Len(p) - 1) \in f.dirs

CallRecord(fn, args, pre, r) ==
    [fn |-> fn, args |-> args, pre |-> pre, post |-> r.fs,
     status |-> r.status, ret |-> r.ret, reqs |-> r.reqs, events |-> r.events]

ZenodoInit ==
    /\ fs \in {f \in InitialFs(ZFolders, ZFilePaths) : WellFormedFs(f)}
    /\ hist = <<>>
    /\ registry = <<>>
    /\ remote = <<>>
    /\ pc = <<>>
    /\ got = <<>>
    /\ storage = <<>>

ZenodoCall ==
    /\ Len(hist) < MaxCalls
    /\ \E dataset \in ZDatasets, folder \in ZFolders, doi \in ZDois,
          filename \in ZFilenames, resp \in Responses :
          LET r == zenodo_fetch(dataset, folder, doi, filename, fs, resp)
          IN  /\ fs' = r.fs
              /\ hist' = Append(hist, CallRecord("zenodo_fetch",
                                    <<dataset, folder, doi, filename>>, fs, r))
    /\ UNCHANGED <<registry, remote, pc, got, storage>>

ZenodoNext == ZenodoCall

SpecZenodo == ZenodoInit /\ [][ZenodoNext]_vars

(***************************************************************************)
(* zenodo_fetch run by two callers at once for the same destination: each   *)
(* caller goes through the function line by line, and the steps of the two  *)
(* interleave.  open(file, 'wb') creates or truncates the file; the payload *)
(* is in it only once write and the close of the with-block are done.       *)
(***************************************************************************)
Callers == {1, 2}

RaceDataset == "KRUK.dmr.zip"
RaceFolder  == <<"dl">>
RaceFile    == Join(RaceFolder, RaceDataset)
RaceUrl     == FileUrl(DATASETS[RaceDataset].doi, RaceDataset)

\* Content of a file that open(..., 'wb') has just created or truncated.
Truncated == <<>>

NotDone == [status |-> "running", ret |-> <<>>, seen |-> <<>>]

RaceInit ==
    /\ fs \in {f \in InitialFs({RaceFolder}, {RaceFile}) : WellFormedFs(f)}
    /\ pc = [c \in Callers |-> "idle"]
    /\ got = [c \in Callers |-> NotDone]
    /\ hist = <<>>
    /\ registry = <<>>
    /\ remote = <<>>
    /\ storage = <<>>

\* A caller enters zenodo_fetch (lines 61-71).
RaceEnter(c) ==
    /\ pc[c] = "idle"
    /\ pc' = [pc EXCEPT ![c] = "check"]
    /\ UNCHANGED <<fs, got, hist, registry, remote, storage>>

\* Lines 74-75, file present: return it.  seen is what the file holds as the
\* caller gets its path.
RaceCheckPresent(c) ==
    /\ pc[c] = "check"
    /\ Exists(fs, RaceFile)
    /\ pc' = [pc EXCEPT ![c] = "done"]
    /\ got' = [got EXCEPT ![c] = [status |-> "return", ret |-> RaceFile,
                                  seen |-> fs.files[RaceFile]]]
    /\ UNCHANGED <<fs, hist, registry, remote, storage>>

\* Line 74, file absent: go on to the download.
RaceCheckAbsent(c) ==
    /\ pc[c] = "check"
    /\ ~Exists(fs, RaceFile)
    /\ pc' = [pc EXCEPT ![c] = "get"]
    /\ UNCHANGED <<fs, got, hist, registry, remote, storage>>

\* Lines 78-104: the request succeeds.
RaceGetOk(c) ==
    /\ pc[c] = "get"
    /\ pc' = [pc EXCEPT ![c] = "folder"]
    /\ hist' = Append(hist, <<"get", c, RaceUrl>>)
    /\ UNCHANGED <<fs, got, registry, remote, storage>>

\* Lines 93-104: the request fails, the call raises.
RaceGetFail(c) ==
    /\ pc[c] = "get"
    /\ \E resp \in Responses \ {"ok"} :
          got' = [got EXCEPT ![c] = [status |-> IF resp = "conn"
                                                THEN "requests.ConnectionError"
                                                ELSE "requests.HTTPError",
                                     ret |-> <<>>, seen |-> <<>>]]
    /\ pc' = [pc EXCEPT ![c] = "done"]
    /\ hist' = Append(hist, <<"get", c, RaceUrl>>)
    /\ UNCHANGED <<fs, registry, remote, storage>>

\* Line 107: the test of the folder.
RaceFolderCheck(c) ==
    /\ pc[c] = "folder"
    /\ pc' = [pc EXCEPT ![c] = IF Exists(fs, RaceFolder) THEN "open" ELSE "makedirs"]
    /\ UNCHANGED <<fs, got, hist, registry, remote, storage>>

\* Line 108: os.makedirs(folder), which has no exist_ok and raises
\* FileExistsError if the folder has appeared since the test.
RaceMakeDirs(c) ==
    /\ pc[c] = "makedirs"
    /\ IF Exists(fs, RaceFolder)
       THEN /\ pc' = [pc EXCEPT ![c] = "done"]
            /\ got' = [got EXCEPT ![c] = [status |-> "FileExistsError",
                                          ret |-> <<>>, seen |-> <<>>]]
            /\ fs' = fs
       ELSE /\ pc' = [pc EXCEPT ![c] = "open"]
            /\ fs' = MakeDirs(fs, RaceFolder)
            /\ got' = got
    /\ UNCHANGED <<hist, registry, remote, storage>>

\* Line 110: open(file, 'wb') creates the file empty, or empties it.
RaceOpen(c) ==
    /\ pc[c] = "open"
    /\ fs' = WriteFile(fs, RaceFile, Truncated)
    /\ pc' = [pc EXCEPT ![c] = "write"]
    /\ UNCHANGED <<got, hist, registry, remote, storage>>

\* Lines 111-113: the payload is written, the file closed, the path returned.
RaceWrite(c) ==
    /\ pc[c] = "write"
    /\ fs' = WriteFile(fs, RaceFile, Body(RaceUrl))
    /\ pc' = [pc EXCEPT ![c] = "done"]
    /\ got' = [got EXCEPT ![c] = [status |-> "return", ret |-> RaceFile,
                                  seen |-> Body(RaceUrl)]]
    /\ UNCHANGED <<hist, registry, remote, storage>>

RaceNext ==
    \E c \in Callers :
        \/ RaceEnter(c)
        \/ RaceCheckPresent(c)
        \/ RaceCheckAbsent(c)
        \/ RaceGetOk(c)
        \/ RaceGetFail(c)
        \/ RaceFolderCheck(c)
        \/ RaceMakeDirs(c)
        \/ RaceOpen(c)
        \/ RaceWrite(c)

SpecRace == RaceInit /\ [][RaceNext]_vars

\* C2: with two concurrent callers for one destination, the file is never
\* present before the full payload is in it, and no caller gets the path of an
\* empty or partly written file.
C2_NeverPartial ==
    /\ Exists(fs, RaceFile) => fs.files[RaceFile] \in {Body(RaceUrl), OldContent}
    /\ \A c \in Callers :
          got[c].status = "return" => got[c].seen \in {Body(RaceUrl), OldContent}

\* The second half of C2 alone: a caller is handed the path of a file that is
\* empty at that moment.
C2_NoEmptyPathReturned ==
    \A c \in Callers :
        got[c].status = "return" => got[c].seen \in {Body(RaceUrl), OldContent}

\* C2's "the only extra effect is a duplicate write": no caller fails for a
\* reason other than its own request.
C2_NoOtherFailure ==
    \A c \in Callers : got[c].status # "FileExistsError"

(***************************************************************************)
(* rat_fetch.  RAT_PROJECTS (miblab/rat.py) is an ordered mapping from      *)
(* group name to list of filenames: a sequence of [name, files] records,    *)
(* in insertion order.                                                      *)
(***************************************************************************)
RAT_PROJECTS_A ==
    << [name |-> "bosentan_highdose", files |-> <<"S01.zip", "S02.zip">>],
       [name |-> "relaxivity",        files |-> <<"S03.zip">>] >>

\* Another registry: the default group is not the first one, and one filename
\* is listed by two groups.
RAT_PROJECTS_B ==
    << [name |-> "relaxivity",        files |-> <<"S03.zip", "S01.zip">>],
       [name |-> "bosentan_highdose", files |-> <<"S01.zip", "S02.zip">>] >>

Registries == {RAT_PROJECTS_A, RAT_PROJECTS_B}

RatFiles == {"S01.zip", "S02.zip", "S03.zip"}

\* RAT_PROJECTS.keys(), as a sequence (insertion order) and as a set.
KeyList(reg) == [i \in 1..Len(reg) |-> reg[i].name]
Keys(reg) == {reg[i].name : i \in 1..Len(reg)}

\* RAT_PROJECTS[group]
Lookup(reg, group) == reg[CHOOSE i \in 1..Len(reg) : reg[i].name = group].files

\* Group names the calls are made with, and str.lower() on them.
RDatasets ==
    {None, "", "all", "ALL", "All", "bosentan_highdose", "relaxivity",
     "Relaxivity", "not_a_group"}

Lower(s) ==
    CASE s \in {"all", "ALL", "All"} -> "all"
      [] s = "Relaxivity" -> "relaxivity"
      [] OTHER -> s

\* Python truthiness of an optional string: None and "" are false.
Falsy(s) == s = None \/ s = ""

RFolders == {<<"downloads">>}
RDois == {None, "999"}

\* The inner loop over one group's file_list, from index i.  acc carries the
\* filesystem, the paths so far, the requests so far, the events so far, the
\* number of loop iterations started, and whether a fetch has raised.
\* The same loop, going on to the next file after a failed fetch instead of
\* raising.  C6 must tell it from rat_files.
RECURSIVE rat_files_continue(_, _, _, _, _, _)
rat_files_continue(file_list, i, folder, doi, rem, acc) ==
    IF i > Len(file_list) THEN acc
    ELSE
      LET fname    == file_list[i]
          url      == FileUrl(doi, fname)
          out_path == Join(folder, fname)
          n        == acc.n + 1
      IN  IF Exists(acc.fs, out_path)
          THEN rat_files_continue(file_list, i + 1, folder, doi, rem,
                    [acc EXCEPT !.n = n, !.paths = Append(@, out_path)])
          ELSE IF rem[fname] # "ok"
          THEN rat_files_continue(file_list, i + 1, folder, doi, rem,
                    [acc EXCEPT !.n = n, !.reqs = Append(@, url),
                                !.events = Append(@, <<"get", n, url>>)])
          ELSE rat_files_continue(file_list, i + 1, folder, doi, rem,
                    [acc EXCEPT !.n = n,
                                !.fs = WriteFile(@, out_path, Body(url)),
                                !.paths = Append(@, out_path),
                                !.reqs = Append(@, url),
                                !.events = @ \o << <<"get", n, url>>,
                                                   <<"write", n, out_path>> >>])

\* The same loop, not appending the path of a file that is already there.
\* C4 must tell it from rat_files.
RECURSIVE rat_files_dropskipped(_, _, _, _, _, _)
rat_files_dropskipped(file_list, i, folder, doi, rem, acc) ==
    IF i > Len(file_list) THEN acc
    ELSE
      LET fname    == file_list[i]
          url      == FileUrl(doi, fname)
          out_path == Join(folder, fname)
          n        == acc.n + 1
      IN  IF Exists(acc.fs, out_path)
          THEN rat_files_dropskipped(file_list, i + 1, folder, doi, rem,
                    [acc EXCEPT !.n = n])
          ELSE IF rem[fname] # "ok"
          THEN [acc EXCEPT !.n = n, !.raised = TRUE,
                           !.reqs = Append(@, url),
                           !.events = Append(@, <<"get", n, url>>)]
          ELSE rat_files_dropskipped(file_list, i + 1, folder, doi, rem,
                    [acc EXCEPT !.n = n,
                                !.fs = WriteFile(@, out_path, Body(url)),
                                !.paths = Append(@, out_path),
                                !.reqs = Append(@, url),
                                !.events = @ \o << <<"get", n, url>>,
                                                   <<"write", n, out_path>> >>])

\* Lines 350-370.
RECURSIVE rat_files(_, _, _, _, _, _)
rat_files(file_list, i, folder, doi, rem, acc) ==
    IF i > Len(file_list) THEN acc
    ELSE
      LET fname    == file_list[i]
          url      == FileUrl(doi, fname)
          out_path == Join(folder, fname)
          n        == acc.n + 1
      IN  IF Exists(acc.fs, out_path)
          THEN rat_files(file_list, i + 1, folder, doi, rem,
                    [acc EXCEPT !.n = n, !.paths = Append(@, out_path)])
          ELSE IF rem[fname] # "ok"
          THEN [acc EXCEPT !.n = n, !.raised = TRUE,
                           !.reqs = Append(@, url),
                           !.events = Append(@, <<"get", n, url>>)]
          ELSE rat_files(file_list, i + 1, folder, doi, rem,
                    [acc EXCEPT !.n = n,
                                !.fs = WriteFile(@, out_path, Body(url)),
                                !.paths = Append(@, out_path),
                                !.reqs = Append(@, url),
                                !.events = @ \o << <<"get", n, url>>,
                                                   <<"write", n, out_path>> >>])

\* The outer loop over groups_to_download, from index g.
RECURSIVE rat_groups(_, _, _, _, _, _, _)
rat_groups(reg, groups, g, folder, doi, rem, acc) ==
    IF g > Len(groups) \/ acc.raised THEN acc
    ELSE rat_groups(reg, groups, g + 1, folder, doi, rem,
                    rat_files(Lookup(reg, groups[g]), 1, folder, doi, rem, acc))

\* The default the docstring's line 291 describes ("all ... or dataset=None").
\* C5 must tell it from default_dataset.
default_dataset_all(dataset) == IF Falsy(dataset) THEN "all" ELSE dataset

\* dataset defaulted as the code does it (lines 322-324).
default_dataset(dataset) == IF Falsy(dataset) THEN "bosentan_highdose" ELSE dataset

\* rat_fetch with the folder made before the group name is looked up.  C3 must
\* tell it from rat_fetch.
rat_fetch_mkdir_first(dataset, folder, doi, f, rem, reg) ==
    LET ds  == default_dataset(dataset)
        d   == IF Falsy(doi) THEN DOI.RAT ELSE doi
        f1  == MakeDirs(f, folder)
        groups == IF Lower(ds) = "all" THEN KeyList(reg) ELSE <<ds>>
        acc == rat_groups(reg, groups, 1, folder, d, rem,
                   [fs |-> f1, paths |-> <<>>, reqs |-> <<>>, events |-> <<>>,
                    n |-> 0, raised |-> FALSE])
    IN  IF Lower(ds) # "all" /\ ds \notin Keys(reg)
        THEN Result("ValueError", <<>>, f1, <<>>, <<>>)
        ELSE IF acc.raised
        THEN Result("ConnectionError", <<>>, acc.fs, acc.reqs, acc.events)
        ELSE Result("return", acc.paths, acc.fs, acc.reqs, acc.events)

\* rat_fetch, as one call (lines 317-372).
rat_fetch(dataset, folder, doi, f, rem, reg) ==
    LET ds  == default_dataset(dataset)
        d   == IF Falsy(doi) THEN DOI.RAT ELSE doi
        groups == IF Lower(ds) = "all" THEN KeyList(reg) ELSE <<ds>>
        acc == rat_groups(reg, groups, 1, folder, d, rem,
                   [fs |-> MakeDirs(f, folder), paths |-> <<>>, reqs |-> <<>>,
                    events |-> <<>>, n |-> 0, raised |-> FALSE])
    IN  IF Lower(ds) # "all" /\ ds \notin Keys(reg)
        THEN Result("ValueError", <<>>, f, <<>>, <<>>)
        ELSE IF acc.raised
        THEN Result("ConnectionError", <<>>, acc.fs, acc.reqs, acc.events)
        ELSE Result("return", acc.paths, acc.fs, acc.reqs, acc.events)

\* Number of rat_fetch calls in one behaviour.
MaxRatCalls == 1

RFilePaths == {Join(d, n) : d \in RFolders, n \in RatFiles}

RatInit ==
    /\ registry \in Registries
    /\ remote \in [RatFiles -> Responses]
    /\ fs \in {f \in InitialFs(RFolders, RFilePaths) : WellFormedFs(f)}
    /\ hist = <<>>
    /\ pc = <<>>
    /\ got = <<>>
    /\ storage = <<>>

RatCall ==
    /\ Len(hist) < MaxRatCalls
    /\ \E dataset \in RDatasets, folder \in RFolders, doi \in RDois :
          LET r == rat_fetch(dataset, folder, doi, fs, remote, registry)
          IN  /\ fs' = r.fs
              /\ hist' = Append(hist, CallRecord("rat_fetch",
                                    <<dataset, folder, doi>>, fs, r))
    /\ UNCHANGED <<registry, remote, pc, got, storage>>

RatNext == RatCall

SpecRat == RatInit /\ [][RatNext]_vars

(***************************************************************************)
(* C1: the Single-File Fetcher called twice in a row with the same          *)
(* arguments.                                                               *)
(***************************************************************************)
TwiceInARow(i) ==
    /\ i \in 1..(Len(hist) - 1)
    /\ hist[i].fn = "zenodo_fetch" /\ hist[i + 1].fn = "zenodo_fetch"
    /\ hist[i].args = hist[i + 1].args

ZTarget(args) ==
    IF args[4] = None THEN Join(args[2], args[1]) ELSE Join(args[2], args[4])

\* C1 as stated: for any arguments, two identical calls in a row make exactly
\* one network request in total, the second call makes none and returns the
\* same path as the first.
C1_ExactlyOneRequest ==
    \A i \in 1..(Len(hist) - 1) :
        TwiceInARow(i) =>
            /\ Len(hist[i].reqs) + Len(hist[i + 1].reqs) = 1
            /\ hist[i + 1].reqs = <<>>
            /\ hist[i + 1].status = "return"
            /\ hist[i + 1].ret = hist[i].ret

\* C1 amended: when the first of two identical calls in a row returns a path,
\* the second makes no request and returns the same path, and the two calls
\* together make one request if the file was absent before the first call and
\* none if it was already there.
C1_Idempotent ==
    \A i \in 1..(Len(hist) - 1) :
        (TwiceInARow(i) /\ hist[i].status = "return") =>
            /\ hist[i + 1].reqs = <<>>
            /\ hist[i + 1].status = "return"
            /\ hist[i + 1].ret = hist[i].ret
            /\ hist[i].ret = ZTarget(hist[i].args)
            /\ hist[i + 1].post = hist[i].post
            /\ Len(hist[i].reqs) + Len(hist[i + 1].reqs) =
                  (IF Exists(hist[i].pre, ZTarget(hist[i].args)) THEN 0 ELSE 1)

\* Two identical calls, the first downloading the file, the second finding it.
C1_Witness ==
    \E i \in 1..(Len(hist) - 1) :
        /\ TwiceInARow(i)
        /\ hist[i].status = "return" /\ Len(hist[i].reqs) = 1
        /\ hist[i + 1].status = "return" /\ hist[i + 1].reqs = <<>>

(***************************************************************************)
(* The Grouped Fetcher's claims.  What a call should select is stated here  *)
(* from the claim, not from rat_fetch.                                      *)
(***************************************************************************)
RatCalls == {i \in 1..Len(hist) : hist[i].fn = "rat_fetch"}

AllSpellings == {"all", "ALL", "All"}

\* The groups a call with this group name is meant to select, in order.
SelectedGroups(name) ==
    IF name \in AllSpellings THEN KeyList(registry)
    ELSE IF name \in {None, ""} THEN <<"bosentan_highdose">>
    ELSE <<name>>

RECURSIVE FlatNames(_)
FlatNames(groups) ==
    IF groups = <<>> THEN <<>>
    ELSE Lookup(registry, Head(groups)) \o FlatNames(Tail(groups))

RECURSIVE SumSizes(_)
SumSizes(reg) ==
    IF reg = <<>> THEN 0 ELSE Len(Head(reg).files) + SumSizes(Tail(reg))

ValidGroupName(name) ==
    name \in AllSpellings \cup {None, ""} \cup Keys(registry)

ExpectedDoi(doi) == IF doi \in {None, ""} THEN "10675642" ELSE doi

\* C3: a call with a (non-empty) group name that is neither "all" in any letter
\* case nor a key of the Registry raises ValueError (UnknownGroup), makes no
\* request and leaves the filesystem as it was: the folder is not created and
\* no file is written.
C3_UnknownGroup ==
    \A i \in RatCalls :
        (hist[i].args[1] \notin AllSpellings \cup {None, ""} \cup Keys(registry)) =>
            /\ hist[i].status = "ValueError"
            /\ hist[i].reqs = <<>>
            /\ hist[i].events = <<>>
            /\ hist[i].post = hist[i].pre

\* An unknown group name given while the destination folder does not exist.
C3_Witness ==
    \E i \in RatCalls :
        /\ hist[i].args[1] \in {"not_a_group", "Relaxivity"}
        /\ hist[i].status = "ValueError"
        /\ hist[i].args[2] \notin hist[i].pre.dirs
        /\ hist[i].args[2] \notin fs.dirs

\* Every file the call has to download is served.
AllDownloadsSucceed(i) ==
    LET names == FlatNames(SelectedGroups(hist[i].args[1]))
    IN  \A k \in 1..Len(names) :
            Exists(hist[i].pre, Join(hist[i].args[2], names[k])) \/ remote[names[k]] = "ok"

\* C4: when every download succeeds the call returns one path per filename of
\* the selected groups, in Registry order across groups and list order within
\* a group, whether the file was already there or freshly downloaded; with
\* "all" in any letter case the result is as long as all groups together.
C4_PathsInOrder ==
    \A i \in RatCalls :
        (ValidGroupName(hist[i].args[1]) /\ AllDownloadsSucceed(i)) =>
            LET names == FlatNames(SelectedGroups(hist[i].args[1]))
            IN  /\ hist[i].status = "return"
                /\ hist[i].ret = [k \in 1..Len(names) |-> Join(hist[i].args[2], names[k])]
                /\ \A k \in 1..Len(names) : Exists(hist[i].post, hist[i].ret[k])
                /\ hist[i].args[1] \in AllSpellings => Len(hist[i].ret) = SumSizes(registry)

\* "all" in another letter case, some files already there and some downloaded.
C4_Witness ==
    \E i \in RatCalls :
        /\ hist[i].args[1] \in {"ALL", "All"}
        /\ hist[i].status = "return"
        /\ hist[i].reqs # <<>>
        /\ Len(hist[i].reqs) < Len(hist[i].ret)
        /\ Len(hist[i].ret) = SumSizes(registry)

FailingPositions(i) ==
    LET names == FlatNames(SelectedGroups(hist[i].args[1]))
    IN  {k \in 1..Len(names) :
            /\ ~Exists(hist[i].pre, Join(hist[i].args[2], names[k]))
            /\ remote[names[k]] # "ok"}

Min(S) == CHOOSE x \in S : \A y \in S : x <= y

\* C6: a failed fetch of one file aborts the call: it raises and returns no
\* paths, the failed request is the last thing it does, and nothing is
\* requested or written for the filenames after the failed one, in the same
\* group or a later one.
C6_AbortOnFailure ==
    \A i \in RatCalls :
        (ValidGroupName(hist[i].args[1]) /\ FailingPositions(i) # {}) =>
            LET names  == FlatNames(SelectedGroups(hist[i].args[1]))
                kf     == Min(FailingPositions(i))
                ev     == hist[i].events
                folder == hist[i].args[2]
            IN  /\ hist[i].status = "ConnectionError"
                /\ hist[i].ret = <<>>
                /\ ev # <<>>
                /\ ev[Len(ev)] = <<"get", kf, FileUrl(ExpectedDoi(hist[i].args[3]), names[kf])>>
                /\ \A e \in 1..Len(ev) : ev[e][2] <= kf
                /\ \A k \in (kf + 1)..Len(names) :
                      (\A j \in 1..kf : names[j] # names[k]) =>
                          /\ Exists(hist[i].post, Join(folder, names[k]))
                               = Exists(hist[i].pre, Join(folder, names[k]))
                          /\ \A e \in 1..Len(hist[i].reqs) :
                               hist[i].reqs[e][4] # names[k]

\* A failure in the middle: a file written before it, an absent file after it.
C6_Witness ==
    \E i \in RatCalls :
        /\ hist[i].status = "ConnectionError"
        /\ FailingPositions(i) # {}
        /\ LET names == FlatNames(SelectedGroups(hist[i].args[1]))
               kf    == Min(FailingPositions(i))
           IN  /\ kf > 1 /\ kf < Len(names)
               /\ \E e \in 1..Len(hist[i].events) : hist[i].events[e][1] = "write"
               /\ \E k \in (kf + 1)..Len(names) :
                     /\ remote[names[k]] = "ok"
                     /\ ~Exists(fs, Join(hist[i].args[2], names[k]))

(***************************************************************************)
(* osf_fetch.  In this part a name is <<stem, extension>> ("d.zip" is       *)
(* <<"d", ".zip">>), a remote path string is a sequence of tokens: names    *)
(* and the separator "/".                                                   *)
(***************************************************************************)
a_txt     == <<"a", ".txt">>
d_zip     == <<"d", ".zip">>
E_ZIP     == <<"E", ".ZIP">>
d_plain   == <<"d", "">>
old_zip   == <<"old", ".zip">>
inner_csv == <<"inner", ".csv">>
FolderA   == <<"A", "">>
FolderB   == <<"B", "">>
FolderX   == <<"X", "">>
Dest      == <<"dest", "">>
Slash     == <<"/", "">>
EmptyName == <<"", "">>

\* filename.lower().endswith('.zip')
LowerExt(ext) == IF ext \in {".zip", ".ZIP", ".Zip"} THEN ".zip" ELSE ext
IsZipName(n) == LowerExt(n[2]) = ".zip"

\* filename[:-4] of a name that ends in '.zip'
StripExt(n) == <<n[1], "">>

\* File data: a plain file, or a zip archive that is good, has a corrupt entry
\* (testzip names it), or passes testzip but cannot be extracted.
TextData == <<"text">>
ZipData(kind) == <<"zip", kind>>
ZipKinds == {"good", "corrupt", "unextractable"}
EntryData == <<"entry">>

\* dataset.strip('/')
RECURSIVE LStrip(_)
LStrip(s) == IF s # <<>> /\ Head(s) = Slash THEN LStrip(Tail(s)) ELSE s

RECURSIVE RStrip(_)
RStrip(s) ==
    IF s # <<>> /\ s[Len(s)] = Slash THEN RStrip(SubSeq(s, 1, Len(s) - 1)) ELSE s

Strip(s) == RStrip(LStrip(s))

\* str.split('/'): the segments between separators; two separators in a row,
\* or an empty string, give an empty segment.
RECURSIVE SplitFrom(_, _, _)
SplitFrom(s, i, cur) ==
    IF i > Len(s) THEN <<cur>>
    ELSE IF s[i] = Slash THEN <<cur>> \o SplitFrom(s, i + 1, EmptyName)
    ELSE SplitFrom(s, i + 1, <<cur[1] \o s[i][1], cur[2] \o s[i][2]>>)

Split(s) == SplitFrom(s, 1, EmptyName)

\* Remote trees: folder path -> its files and folders, in listing order.
Folder(files, folders) == [files |-> files, folders |-> folders]

TreeDeep ==
    (<<>> :> Folder(<<a_txt>>, <<FolderA>>)) @@
    (<<FolderA>> :> Folder(<<d_zip>>, <<FolderB>>)) @@
    (<<FolderA, FolderB>> :> Folder(<<E_ZIP, a_txt>>, <<>>))

TreeClash ==
    (<<>> :> Folder(<<d_zip, d_plain>>, <<FolderA>>)) @@
    (<<FolderA>> :> Folder(<<a_txt>>, <<>>))

TreeWide ==
    (<<>> :> Folder(<<>>, <<FolderA, FolderB>>)) @@
    (<<FolderA>> :> Folder(<<d_zip, a_txt>>, <<>>)) @@
    (<<FolderB>> :> Folder(<<E_ZIP, d_plain>>, <<>>))

Trees == {TreeDeep, TreeClash, TreeWide}

\* Folder.files: the files directly in the folder, as remote paths.
FolderFiles(tree, p) ==
    [i \in 1..Len(tree[p].files) |-> Join(p, tree[p].files[i])]

\* Storage.files: osfclient lists the files of a Storage recursively, those of
\* all subfolders included (osf_upload, line 259, finds a file by its full
\* path in storage.files).
RECURSIVE StorageFiles(_, _)
RECURSIVE StorageFilesOf(_, _, _)
StorageFilesOf(tree, p, j) ==
    IF j > Len(tree[p].folders) THEN <<>>
    ELSE StorageFiles(tree, Join(p, tree[p].folders[j])) \o StorageFilesOf(tree, p, j + 1)

StorageFiles(tree, p) == FolderFiles(tree, p) \o StorageFilesOf(tree, p, 1)

Range(seq) == {seq[i] : i \in 1..Len(seq)}

RemoteFiles(tree) == Range(StorageFiles(tree, <<>>))

Storages ==
    UNION {{[tree |-> t, data |-> d] :
               d \in {g \in [RemoteFiles(t) -> {TextData} \cup {ZipData(k) : k \in ZipKinds}] :
                        \A r \in RemoteFiles(t) :
                            IsZipName(r[Len(r)]) \/ g[r] = TextData}} :
           t \in Trees}

\* current_folder.files at line 169: current is the Storage when no dataset
\* path was given, and a Folder otherwise.
files_of(tree, current) ==
    IF current = <<>> THEN StorageFiles(tree, <<>>) ELSE FolderFiles(tree, current)

\* navigate without the for-else that raises: a part with no matching folder
\* is passed over.  C9 must tell it from navigate.
RECURSIVE navigate_skip(_, _, _, _)
navigate_skip(tree, parts, i, current) ==
    IF i > Len(parts) THEN [found |-> TRUE, at |-> current, part |-> EmptyName]
    ELSE IF parts[i] \in Range(tree[current].folders)
    THEN navigate_skip(tree, parts, i + 1, Join(current, parts[i]))
    ELSE navigate_skip(tree, parts, i + 1, current)

\* Lines 158-164: descend one folder per part; the first part that names no
\* child folder of the folder reached ends the descent.
RECURSIVE navigate(_, _, _, _)
navigate(tree, parts, i, current) ==
    IF i > Len(parts) THEN [found |-> TRUE, at |-> current, part |-> EmptyName]
    ELSE IF parts[i] \in Range(tree[current].folders)
    THEN navigate(tree, parts, i + 1, Join(current, parts[i]))
    ELSE [found |-> FALSE, at |-> current, part |-> parts[i]]

Event(acc, kind, a, b) == [acc EXCEPT !.events = Append(@, <<kind, a, b>>)]

\* Lines 171-178: the files of one folder.  A download fails when the local
\* path cannot be opened (it is a directory) or when write_to raises, which
\* leaves the file that open created empty.
RECURSIVE download_files(_, _, _, _, _, _)
download_files(st, env, files, i, local_folder, acc) ==
    IF i > Len(files) THEN acc
    ELSE
      LET rfile      == files[i]
          local_file == Join(local_folder, rfile[Len(rfile)])
      IN  IF local_file \in acc.fs.dirs
          THEN download_files(st, env, files, i + 1, local_folder,
                    Event(acc, "download-failed", rfile, local_file))
          ELSE IF rfile \in env.failing
          THEN download_files(st, env, files, i + 1, local_folder,
                    Event([acc EXCEPT !.fs = WriteFile(@, local_file, Truncated)],
                          "download-failed", rfile, local_file))
          ELSE download_files(st, env, files, i + 1, local_folder,
                    Event([acc EXCEPT !.fs = WriteFile(@, local_file, st.data[rfile])],
                          "download", rfile, local_file))

\* Lines 167-181: download(current_folder, local_folder).
RECURSIVE download(_, _, _, _, _)
RECURSIVE download_folders(_, _, _, _, _, _)
download_folders(st, env, current, j, local_folder, acc) ==
    IF j > Len(st.tree[current].folders) THEN acc
    ELSE LET sub == st.tree[current].folders[j]
         IN  download_folders(st, env, current, j + 1, local_folder,
                 download(st, env, Join(current, sub), Join(local_folder, sub), acc))

download(st, env, current, local_folder, acc) ==
    IF acc.raised # "" THEN acc
    ELSE IF local_folder \in DOMAIN acc.fs.files
    THEN [acc EXCEPT !.raised = "FileExistsError"]
    ELSE download_folders(st, env, current, 1, local_folder,
             download_files(st, env, files_of(st.tree, current), 1, local_folder,
                 Event([acc EXCEPT !.fs = MakeDirs(@, local_folder)],
                       "folder", current, local_folder)))

RemoveFile(f, p) ==
    [f EXCEPT !.files = [q \in (DOMAIN f.files) \ {p} |-> f.files[q]]]

IsGoodZip(c) == c = ZipData("good")
OpensAsZip(c) == Len(c) = 2 /\ c[1] = "zip"

\* Lines 190-204: one archive.  os.makedirs(extract_to, exist_ok=True) is
\* outside the try and raises FileExistsError when extract_to is a regular
\* file; everything after it is inside the try.
extract_one(env, dirpath, filename, acc) ==
    LET zip_path   == Join(dirpath, filename)
        extract_to == Join(dirpath, StripExt(filename))
        made       == [acc EXCEPT !.fs = MakeDirs(@, extract_to)]
        c          == acc.fs.files[zip_path]
    IN  IF extract_to \in DOMAIN acc.fs.files
        THEN [Event(acc, "makedirs-failed", zip_path, extract_to)
                 EXCEPT !.raised = "FileExistsError"]
        ELSE IF ~OpensAsZip(c)
        THEN Event(made, "open-failed", zip_path, extract_to)
        ELSE IF c = ZipData("corrupt")
        THEN Event(made, "testzip-failed", zip_path, extract_to)
        ELSE IF c = ZipData("unextractable")
        THEN Event(made, "extractall-failed", zip_path, extract_to)
        ELSE LET ex == Event([made EXCEPT !.fs = WriteFile(@, Join(extract_to, inner_csv),
                                                        EntryData)],
                             "extract", zip_path, extract_to)
             IN  IF env.rmfail
                 THEN Event(ex, "remove-failed", zip_path, extract_to)
                 ELSE Event([ex EXCEPT !.fs = RemoveFile(@, zip_path)],
                            "remove", zip_path, extract_to)

\* Lines 187-189: os.walk(folder), top-down.  The names of a directory are
\* listed when the walk reaches it; env.order is the order of the listing.
RECURSIVE walk_files(_, _, _, _, _)
walk_files(env, dirpath, filenames, i, acc) ==
    IF i > Len(filenames) \/ acc.raised # "" THEN acc
    ELSE walk_files(env, dirpath, filenames, i + 1,
             IF IsZipName(filenames[i])
             THEN extract_one(env, dirpath, filenames[i], acc)
             ELSE acc)

RECURSIVE walk(_, _, _)
RECURSIVE walk_dirs(_, _, _, _, _)
walk_dirs(env, dirpath, dirnames, j, acc) ==
    IF j > Len(dirnames) \/ acc.raised # "" THEN acc
    ELSE walk_dirs(env, dirpath, dirnames, j + 1,
                   walk(env, Join(dirpath, dirnames[j]), acc))

walk(env, dirpath, acc) ==
    LET filenames == SelectSeq(env.order, LAMBDA n : Join(dirpath, n) \in DOMAIN acc.fs.files)
        dirnames  == SelectSeq(env.order, LAMBDA n : Join(dirpath, n) \in acc.fs.dirs)
    IN  walk_dirs(env, dirpath, dirnames, 1,
                  walk_files(env, dirpath, filenames, 1, acc))

osf_fetch(dataset, folder, extract, f, st, env) ==
    LET made  == MakeDirs(f, folder)
        parts == IF dataset = <<>> THEN <<>> ELSE Split(Strip(dataset))
        nav   == navigate(st.tree, parts, 1, <<>>)
        start == [fs |-> made, events |-> <<>>, raised |-> ""]
        got_  == download(st, env, nav.at, folder, start)
        done  == IF extract /\ got_.raised = "" THEN walk(env, folder, got_) ELSE got_
    IN  IF ~nav.found
        THEN Result("FileNotFoundError", <<>>, made, <<>>,
                    << <<"raise", <<nav.part>>, dataset>> >>)
        ELSE IF done.raised # ""
        THEN Result(done.raised, <<>>, done.fs, <<>>, done.events)
        ELSE Result("return", folder, done.fs, <<>>, done.events)

\* Arguments and environment of the calls.
ODatasets ==
    { <<>>, <<FolderA>>, <<FolderB>>, <<FolderA, Slash, FolderB>>,
      <<Slash, FolderA, Slash>>, <<FolderA, Slash, FolderX>>,
      <<FolderX, Slash, FolderA>>, <<FolderA, Slash, Slash, FolderB>>, <<Slash>> }

OFolder == <<Dest>>

\* Listing orders of os.walk.
OrderUp   == <<FolderA, FolderB, a_txt, d_plain, d_zip, E_ZIP, inner_csv, old_zip>>
OrderDown == <<old_zip, inner_csv, E_ZIP, d_zip, d_plain, a_txt, FolderB, FolderA>>

\* Number of osf_fetch calls in one behaviour.
MaxOsfCalls == 1

OsfInit ==
    /\ storage \in Storages
    /\ \E failing \in {x \in SUBSET RemoteFiles(storage.tree) : Cardinality(x) <= 1},
          rmfail \in BOOLEAN, order \in {OrderUp, OrderDown} :
          remote = [failing |-> failing, rmfail |-> rmfail, order |-> order]
    /\ fs \in {EmptyFs,
               [dirs |-> {OFolder},
                files |-> (Join(OFolder, old_zip) :> ZipData("good"))]}
    /\ hist = <<>>
    /\ registry = <<>>
    /\ pc = <<>>
    /\ got = <<>>

OsfCall ==
    /\ Len(hist) < MaxOsfCalls
    /\ \E dataset \in ODatasets, extract \in BOOLEAN :
          LET r == osf_fetch(dataset, OFolder, extract, fs, storage, remote)
          IN  /\ fs' = r.fs
              /\ hist' = Append(hist, CallRecord("osf_fetch",
                                    <<dataset, OFolder, extract>>, fs, r))
    /\ UNCHANGED <<registry, remote, pc, got, storage>>

OsfNext == OsfCall

SpecOsf == OsfInit /\ [][OsfNext]_vars

(***************************************************************************)
(* The Remote-Tree Fetcher's claims, stated over the remote tree and the    *)
(* record of each call.                                                     *)
(***************************************************************************)
OsfCalls == {i \in 1..Len(hist) : hist[i].fn = "osf_fetch"}

\* The segments of a remote path.
Segments(dataset) == IF dataset = <<>> THEN <<>> ELSE Split(Strip(dataset))

IsFolderPath(p) == p \in DOMAIN storage.tree

Resolved(i) == IsFolderPath(Segments(hist[i].args[1]))

\* The first segment that is not a child folder of the folder reached so far.
FirstMissing(segs) ==
    Min({k \in 1..Len(segs) : ~IsFolderPath(SubSeq(segs, 1, k))})

IsPrefix(p, q) == Len(p) <= Len(q) /\ SubSeq(q, 1, Len(p)) = p

SubtreeFolders(start) == {p \in DOMAIN storage.tree : IsPrefix(start, p)}

SubtreeFiles(start) ==
    UNION {{Join(p, n) : n \in Range(storage.tree[p].files)} : p \in SubtreeFolders(start)}

\* The local path with the same relative path under the destination folder.
LocalOf(i, start, rpath) ==
    hist[i].args[2] \o SubSeq(rpath, Len(start) + 1, Len(rpath))

Parent(p) == SubSeq(p, 1, Len(p) - 1)

Attempts(i) ==
    {e \in 1..Len(hist[i].events) :
        hist[i].events[e][1] \in {"download", "download-failed"}}

FolderVisits(i) ==
    {e \in 1..Len(hist[i].events) : hist[i].events[e][1] = "folder"}

ExtractionKinds ==
    {"makedirs-failed", "open-failed", "testzip-failed", "extractall-failed",
     "extract", "remove", "remove-failed"}

\* C7 (first half): whichever downloads fail, every file of the subtree gets
\* a download attempt.
C7_DownloadsContinue ==
    \A i \in OsfCalls :
        Resolved(i) =>
            \A r \in SubtreeFiles(Segments(hist[i].args[1])) :
                \E e \in Attempts(i) : hist[i].events[e][2] = r

\* C7: once the remote path is resolved, if the download of a file fails,
\* every other file of the subtree still gets a download attempt and the call
\* returns the destination folder without raising.
C7_PartialFailureTolerance ==
    \A i \in OsfCalls :
        (/\ Resolved(i)
         /\ \E e \in Attempts(i) : hist[i].events[e][1] = "download-failed") =>
            /\ \A r \in SubtreeFiles(Segments(hist[i].args[1])) :
                  \E e \in Attempts(i) : hist[i].events[e][2] = r
            /\ hist[i].status = "return"
            /\ hist[i].ret = hist[i].args[2]

\* The mirror of one call: every folder of the subtree of start visited once,
\* every file of it attempted once, each at the local path with the same
\* relative path, its directory made first, and nothing else downloaded.
MirrorsExactlyOnce(i, start) ==
    LET ev == hist[i].events
    IN  /\ \A p \in SubtreeFolders(start) :
              Cardinality({e \in FolderVisits(i) : ev[e][2] = p}) = 1
        /\ \A e \in FolderVisits(i) :
              /\ ev[e][2] \in SubtreeFolders(start)
              /\ ev[e][3] = LocalOf(i, start, ev[e][2])
        /\ \A r \in SubtreeFiles(start) :
              Cardinality({e \in Attempts(i) : ev[e][2] = r}) = 1
        /\ \A e \in Attempts(i) :
              /\ ev[e][2] \in SubtreeFiles(start)
              /\ ev[e][3] = LocalOf(i, start, ev[e][2])
              /\ \E e0 \in 1..(e - 1) :
                    ev[e0] = <<"folder", Parent(ev[e][2]), Parent(ev[e][3])>>
              /\ ev[e][1] = "download" =>
                    /\ ev[e][3] \in DOMAIN hist[i].post.files \/ IsZipName(ev[e][2][Len(ev[e][2])])
                    /\ Parent(ev[e][3]) \in hist[i].post.dirs

\* C8: for any remote tree and any resolved start folder the mirror visits
\* every folder of the subtree exactly once and attempts every file of it
\* exactly once, at the same relative path under the destination, directories
\* first; nothing outside the subtree is downloaded.
C8_MirrorExactlyOnce ==
    \A i \in OsfCalls :
        Resolved(i) => MirrorsExactlyOnce(i, Segments(hist[i].args[1]))

\* C8 for a start folder other than the storage root.
C8_MirrorBelowRoot ==
    \A i \in OsfCalls :
        (Resolved(i) /\ Segments(hist[i].args[1]) # <<>>) =>
            MirrorsExactlyOnce(i, Segments(hist[i].args[1]))

\* C9: the remote path is resolved segment by segment from the root; at the
\* first segment that is not a child folder of the folder reached so far the
\* call raises FileNotFoundError (PathNotFound) naming that segment and the
\* requested path, with no download attempted, no file written and no archive
\* extracted; the empty path resolves to the root.
C9_PathResolution ==
    \A i \in OsfCalls :
        LET dataset == hist[i].args[1]
            segs    == Segments(dataset)
            ev      == hist[i].events
        IN  IF Resolved(i)
            THEN /\ hist[i].status # "FileNotFoundError"
                 /\ ev # <<>>
                 /\ ev[1] = <<"folder", segs, hist[i].args[2]>>
                 /\ dataset = <<>> => ev[1][2] = <<>>
            ELSE /\ hist[i].status = "FileNotFoundError"
                 /\ ev = << <<"raise", <<segs[FirstMissing(segs)]>>, dataset>> >>
                 /\ hist[i].post.files = hist[i].pre.files
                 /\ hist[i].post.dirs \subseteq hist[i].pre.dirs \cup {hist[i].args[2]}

\* A path whose first segment exists and whose second does not, asked for with
\* extract on and an archive already in the destination folder.
C9_Witness ==
    \E i \in OsfCalls :
        /\ hist[i].args[1] = <<FolderA, Slash, FolderX>>
        /\ hist[i].args[3]
        /\ hist[i].status = "FileNotFoundError"
        /\ hist[i].events[1][2] = <<FolderX>>
        /\ RemoteFiles(storage.tree) # {}
        /\ Join(hist[i].args[2], old_zip) \in DOMAIN fs.files

\* What a path of the destination tree holds once the mirror is done and
\* before the archives are looked at.
HeldAfterDownload(i, p) ==
    LET ev   == hist[i].events
        reps == {e \in Attempts(i) : ev[e][3] = p}
        last == CHOOSE e \in reps : \A e2 \in reps : e2 <= e
    IN  IF reps = {}
        THEN (IF p \in DOMAIN hist[i].pre.files THEN hist[i].pre.files[p] ELSE <<>>)
        ELSE IF ev[last][1] = "download" THEN storage.data[ev[last][2]]
        ELSE <<>>

ArchivePaths(i) ==
    {p \in DOMAIN hist[i].pre.files \cup {hist[i].events[e][3] : e \in Attempts(i)} :
        IsZipName(p[Len(p)])}

\* C10: with extract on, every archive of the destination tree that passes the
\* integrity test has its entries in the sibling directory named after it and
\* is itself gone after the call; an archive is deleted only after it was
\* extracted; with extract off no archive is opened, extracted or deleted.
\* (Read generously: only for archives whose sibling name is free and whose
\* deletion the filesystem allows.)
C10_ArchivesExtracted ==
    \A i \in OsfCalls :
        Resolved(i) =>
            LET ev == hist[i].events
            IN  IF hist[i].args[3]
                THEN /\ \A p \in ArchivePaths(i) :
                          (/\ IsGoodZip(HeldAfterDownload(i, p))
                           /\ Join(Parent(p), StripExt(p[Len(p)])) \notin DOMAIN hist[i].post.files
                           /\ ~remote.rmfail) =>
                              /\ Join(Join(Parent(p), StripExt(p[Len(p)])), inner_csv)
                                    \in DOMAIN hist[i].post.files
                              /\ p \notin DOMAIN hist[i].post.files
                     /\ \A e \in 1..Len(ev) :
                          ev[e][1] = "remove" =>
                              \E e0 \in 1..(e - 1) : ev[e0] = <<"extract", ev[e][2], ev[e][3]>>
                ELSE /\ \A e \in 1..Len(ev) : ev[e][1] \notin ExtractionKinds
                     /\ \A p \in ArchivePaths(i) :
                          /\ p \in DOMAIN hist[i].post.files
                          /\ hist[i].post.files[p] = HeldAfterDownload(i, p)

\* C10 without its first part: deletion only after extraction, and nothing
\* done to archives with extract off.
C10_DeleteAfterExtract ==
    \A i \in OsfCalls :
        Resolved(i) =>
            LET ev == hist[i].events
            IN  IF hist[i].args[3]
                THEN \A e \in 1..Len(ev) :
                          ev[e][1] = "remove" =>
                              \E e0 \in 1..(e - 1) : ev[e0] = <<"extract", ev[e][2], ev[e][3]>>
                ELSE /\ \A e \in 1..Len(ev) : ev[e][1] \notin ExtractionKinds
                     /\ \A p \in ArchivePaths(i) :
                          /\ p \in DOMAIN hist[i].post.files
                          /\ hist[i].post.files[p] = HeldAfterDownload(i, p)

\* C10's first part for the calls that return.
C10_ExtractedWhenReturned ==
    \A i \in OsfCalls :
        (Resolved(i) /\ hist[i].args[3] /\ hist[i].status = "return") =>
            \A p \in ArchivePaths(i) :
                (/\ IsGoodZip(HeldAfterDownload(i, p))
                 /\ ~remote.rmfail) =>
                    /\ Join(Join(Parent(p), StripExt(p[Len(p)])), inner_csv)
                          \in DOMAIN hist[i].post.files
                    /\ p \notin DOMAIN hist[i].post.files

\* The steps of processing one archive that can fail.
FailedSteps ==
    {"makedirs-failed", "open-failed", "testzip-failed", "extractall-failed",
     "remove-failed"}

\* The archives the extraction pass of call i has looked at.
Processed(i) ==
    {hist[i].events[e][2] : e \in {x \in 1..Len(hist[i].events) :
                                      hist[i].events[x][1] \in ExtractionKinds}}

\* C11: with extract on, a failure at any step of processing one archive
\* (making its extraction directory, opening it, the integrity test, the
\* extraction, the removal of the original) is caught for that archive: every
\* archive of the destination tree is still processed and the call returns the
\* destination folder without raising.
C11_ExtractionFailuresCaught ==
    \A i \in OsfCalls :
        (Resolved(i) /\ hist[i].args[3]) =>
            /\ hist[i].status = "return"
            /\ hist[i].ret = hist[i].args[2]
            /\ ArchivePaths(i) \subseteq Processed(i)

\* C11 for the steps inside the try of lines 193-204: a failure to open, test,
\* extract or remove is never what ends the call, and a call in which no
\* extraction directory failed to be made processes every archive and returns.
C11_CaughtInsideTry ==
    \A i \in OsfCalls :
        (Resolved(i) /\ hist[i].args[3]) =>
            LET ev == hist[i].events
            IN  /\ hist[i].status # "return" =>
                      /\ hist[i].status = "FileExistsError"
                      /\ ev[Len(ev)][1] = "makedirs-failed"
                /\ (\A e \in 1..Len(ev) : ev[e][1] # "makedirs-failed") =>
                      /\ hist[i].status = "return"
                      /\ hist[i].ret = hist[i].args[2]
                      /\ ArchivePaths(i) \subseteq Processed(i)

\* A call in which a step inside the try failed for one archive and a later
\* archive was still processed.
C11_InsideTryReached ==
    \E i \in OsfCalls :
        LET ev == hist[i].events
        IN  /\ hist[i].status = "return"
            /\ \E e \in 1..Len(ev), e2 \in 1..Len(ev) :
                  /\ e < e2
                  /\ ev[e][1] \in FailedSteps
                  /\ ev[e2][1] = "extract"

(***************************************************************************)
(* osf_upload.  The remote storage is the same folder tree with file data;  *)
(* a remote path string is a sequence of tokens, as for osf_fetch.          *)
(***************************************************************************)
\* File.path of a remote file: "/" + its names joined by "/".
RECURSIVE PathString(_)
PathString(r) ==
    IF r = <<>> THEN <<>> ELSE <<Slash, Head(r)>> \o PathString(Tail(r))

\* Bytes of a local file that is uploaded.
NewData == <<"new">>

\* existing.remove(), when it succeeds: the file is gone from the storage.
StorageRemove(st, r) ==
    [tree |-> [st.tree EXCEPT ![Parent(r)].files =
                                  SelectSeq(@, LAMBDA n : n # r[Len(r)])],
     data |-> [q \in (DOMAIN st.data) \ {r} |-> st.data[q]]]

\* storage.create_file(full_path, f) can succeed only below a folder that is
\* there (line 212: intermediate folders must exist, osfclient does not create
\* them) and where no file or folder has that path.
CanCreate(st, full_path) ==
    LET segs == Split(full_path)
    IN  /\ Parent(segs) \in DOMAIN st.tree
        /\ segs \notin DOMAIN st.tree
        /\ segs \notin DOMAIN st.data

\* storage.create_file(full_path, f), when it succeeds.
create_file(st, full_path, bytes) ==
    LET segs == Split(full_path)
    IN  [tree |-> [st.tree EXCEPT ![Parent(segs)].files = Append(@, segs[Len(segs)])],
         data |-> (segs :> bytes) @@ st.data]

\* The messages of the exceptions osf_upload raises (lines 247, 267, 283).
LocalNotFoundMsg == <<"Local file not found">>
DeleteFailedMsg  == <<"Failed to delete existing file before overwrite">>
UploadFailedMsg  == <<"Failed to upload file">>

\* What an upload call did: how it ended, the message of the exception, the
\* storage it left, and its remote operations in order: <<kind, remote path,
\* file data>>.
UResult(status, ret, st, events) ==
    [status |-> status, ret |-> ret, storage |-> st, events |-> events]

\* osf_upload that goes on to upload when the removal of the existing file
\* failed.  C13 must tell it from osf_upload.
osf_upload_ignore_rmfail(folder, dataset, overwrite, f, st, env) ==
    LET full_path == Strip(dataset)
        matches   == SelectSeq(StorageFiles(st.tree, <<>>),
                               LAMBDA r : PathString(r) = <<Slash>> \o full_path)
        existing  == matches # <<>>
        gone      == existing /\ ~env.rmfail
        base      == IF gone THEN StorageRemove(st, matches[1]) ELSE st
        evs       == IF ~existing THEN <<>>
                     ELSE IF env.rmfail
                     THEN << <<"remove-failed", matches[1], st.data[matches[1]]>> >>
                     ELSE << <<"remove", matches[1], st.data[matches[1]]>> >>
    IN  IF folder \notin DOMAIN f.files
        THEN UResult("FileNotFoundError", LocalNotFoundMsg, st, <<>>)
        ELSE IF existing /\ ~overwrite
        THEN UResult("return", None, st, <<>>)
        ELSE IF ~CanCreate(base, full_path) \/ env.upfail
        THEN UResult("RuntimeError", UploadFailedMsg, base,
                     Append(evs, <<"create-failed", Split(full_path), f.files[folder]>>))
        ELSE UResult("return", None, create_file(base, full_path, f.files[folder]),
                     Append(evs, <<"create", Split(full_path), f.files[folder]>>))

\* osf_upload that puts the old file back when the upload fails after the
\* removal.  C16 must tell it from osf_upload.
osf_upload_restore(folder, dataset, overwrite, f, st, env) ==
    LET full_path == Strip(dataset)
        matches   == SelectSeq(StorageFiles(st.tree, <<>>),
                               LAMBDA r : PathString(r) = <<Slash>> \o full_path)
        existing  == matches # <<>>
        base      == IF existing THEN StorageRemove(st, matches[1]) ELSE st
        evs       == IF existing
                     THEN << <<"remove", matches[1], st.data[matches[1]]>> >>
                     ELSE <<>>
    IN  IF folder \notin DOMAIN f.files
        THEN UResult("FileNotFoundError", LocalNotFoundMsg, st, <<>>)
        ELSE IF existing /\ ~overwrite
        THEN UResult("return", None, st, <<>>)
        ELSE IF existing /\ env.rmfail
        THEN UResult("RuntimeError", DeleteFailedMsg, st,
                     << <<"remove-failed", matches[1], st.data[matches[1]]>> >>)
        ELSE IF ~CanCreate(base, full_path) \/ env.upfail
        THEN UResult("RuntimeError", UploadFailedMsg, st,
                     Append(evs, <<"create-failed", Split(full_path), f.files[folder]>>))
        ELSE UResult("return", None, create_file(base, full_path, f.files[folder]),
                     Append(evs, <<"create", Split(full_path), f.files[folder]>>))

\* osf_upload that uploads next to an existing file whatever overwrite says.
\* C12 must tell it from osf_upload.
osf_upload_always(folder, dataset, overwrite, f, st, env) ==
    LET full_path == Strip(dataset)
        matches   == SelectSeq(StorageFiles(st.tree, <<>>),
                               LAMBDA r : PathString(r) = <<Slash>> \o full_path)
        existing  == matches # <<>>
        base      == IF existing THEN StorageRemove(st, matches[1]) ELSE st
        evs       == IF existing
                     THEN << <<"remove", matches[1], st.data[matches[1]]>> >>
                     ELSE <<>>
    IN  IF folder \notin DOMAIN f.files
        THEN UResult("FileNotFoundError", LocalNotFoundMsg, st, <<>>)
        ELSE IF existing /\ env.rmfail
        THEN UResult("RuntimeError", DeleteFailedMsg, st,
                     << <<"remove-failed", matches[1], st.data[matches[1]]>> >>)
        ELSE IF ~CanCreate(base, full_path) \/ env.upfail
        THEN UResult("RuntimeError", UploadFailedMsg, base,
                     Append(evs, <<"create-failed", Split(full_path), f.files[folder]>>))
        ELSE UResult("return", None, create_file(base, full_path, f.files[folder]),
                     Append(evs, <<"create", Split(full_path), f.files[folder]>>))

\* osf_upload, as one call (lines 242-283).  folder is the local file, dataset
\* the remote path; env says whether existing.remove() and create_file raise
\* if the call gets as far as making them.
osf_upload(folder, dataset, overwrite, f, st, env) ==
    LET full_path == Strip(dataset)
        matches   == SelectSeq(StorageFiles(st.tree, <<>>),
                               LAMBDA r : PathString(r) = <<Slash>> \o full_path)
        existing  == matches # <<>>
        base      == IF existing THEN StorageRemove(st, matches[1]) ELSE st
        evs       == IF existing
                     THEN << <<"remove", matches[1], st.data[matches[1]]>> >>
                     ELSE <<>>
    IN  IF folder \notin DOMAIN f.files
        THEN UResult("FileNotFoundError", LocalNotFoundMsg, st, <<>>)
        ELSE IF existing /\ ~overwrite
        THEN UResult("return", None, st, <<>>)
        ELSE IF existing /\ env.rmfail
        THEN UResult("RuntimeError", DeleteFailedMsg, st,
                     << <<"remove-failed", matches[1], st.data[matches[1]]>> >>)
        ELSE IF ~CanCreate(base, full_path) \/ env.upfail
        THEN UResult("RuntimeError", UploadFailedMsg, base,
                     Append(evs, <<"create-failed", Split(full_path), f.files[folder]>>))
        ELSE UResult("return", None, create_file(base, full_path, f.files[folder]),
                     Append(evs, <<"create", Split(full_path), f.files[folder]>>))

\* Arguments of the upload calls: remote paths of files that are there, with
\* and without surrounding separators, of files that are not, below a folder
\* that is not there, and with a doubled separator.
UDatasets ==
    { <<FolderA, Slash, d_zip>>, <<Slash, FolderA, Slash, d_zip, Slash>>,
      <<a_txt>>, <<FolderA, Slash, a_txt>>, <<FolderX, Slash, a_txt>>,
      <<FolderA, Slash, Slash, d_zip>> }

LocalFile == <<Dest, a_txt>>

\* The storages an upload can find.
UploadStorages ==
    {[tree |-> t, data |-> [r \in RemoteFiles(t) |->
                               IF IsZipName(r[Len(r)]) THEN ZipData("good")
                               ELSE TextData]] : t \in {TreeDeep, TreeClash}}

UploadRecord(args, pre, r) ==
    [fn |-> "osf_upload", args |-> args, pre |-> pre, post |-> r.storage,
     status |-> r.status, ret |-> r.ret, events |-> r.events]

\* Number of osf_upload calls in one behaviour.
MaxUploadCalls == 2

UploadInit ==
    /\ storage \in UploadStorages
    /\ fs \in {[dirs |-> {<<Dest>>}, files |-> <<>>]} \cup
              {[dirs |-> {<<Dest>>}, files |-> (LocalFile :> c)] :
                  c \in {NewData, TextData}}
    /\ hist = <<>>
    /\ registry = <<>>
    /\ remote = <<>>
    /\ pc = <<>>
    /\ got = <<>>

UploadCall ==
    /\ Len(hist) < MaxUploadCalls
    /\ \E dataset \in UDatasets, overwrite \in BOOLEAN,
          rmfail \in BOOLEAN, upfail \in BOOLEAN :
          LET r == osf_upload(LocalFile, dataset, overwrite, fs, storage,
                              [rmfail |-> rmfail, upfail |-> upfail])
          IN  /\ storage' = r.storage
              /\ hist' = Append(hist, UploadRecord(<<LocalFile, dataset, overwrite>>,
                                                   storage, r))
    /\ UNCHANGED <<fs, registry, remote, pc, got>>

UploadNext == UploadCall

SpecUpload == UploadInit /\ [][UploadNext]_vars

(***************************************************************************)
(* The Remote Uploader's claims.  They are about calls that get past the    *)
(* check of the local file (line 246): the local file is a regular file.    *)
(***************************************************************************)
UploadCalls == {i \in 1..Len(hist) : hist[i].fn = "osf_upload"}

LocalIsFile(i) == hist[i].args[1] \in DOMAIN fs.files

\* The remote files of a storage whose path is the normalized remote path.
FilesAt(st, dataset) ==
    {r \in DOMAIN st.data : PathString(r) = <<Slash>> \o Strip(dataset)}

\* The bytes call i uploads.
Uploaded(i) == fs.files[hist[i].args[1]]

Kinds(i) == [e \in 1..Len(hist[i].events) |-> hist[i].events[e][1]]

\* C12: with overwrite off and a remote file at exactly the normalized remote
\* path, the call returns without raising, removes no remote file and uploads
\* nothing: the storage, that file's content included, is as it was.
C12_SkipLeavesStorage ==
    \A i \in UploadCalls :
        (/\ LocalIsFile(i)
         /\ ~hist[i].args[3]
         /\ FilesAt(hist[i].pre, hist[i].args[2]) # {}) =>
            /\ hist[i].status = "return"
            /\ hist[i].events = <<>>
            /\ hist[i].post = hist[i].pre
            /\ \A r \in FilesAt(hist[i].pre, hist[i].args[2]) :
                  hist[i].post.data[r] = hist[i].pre.data[r]

\* A skipped upload whose bytes differ from what the remote file holds, the
\* remote path given with surrounding separators.
C12_Witness ==
    \E i \in UploadCalls :
        /\ LocalIsFile(i)
        /\ ~hist[i].args[3]
        /\ hist[i].args[2] = <<Slash, FolderA, Slash, d_zip, Slash>>
        /\ <<FolderA, d_zip>> \in DOMAIN hist[i].pre.data
        /\ hist[i].pre.data[<<FolderA, d_zip>>] # Uploaded(i)
        /\ hist[i].status = "return"

\* C13: with overwrite on and a remote file at the normalized path, the file
\* is removed before any upload is attempted; if the removal fails the call
\* fails with the delete-failed RuntimeError (OverwriteFailed) and no upload
\* is attempted; if removal and upload both succeed the remote path holds
\* exactly the uploaded bytes.
C13_RemoveThenUpload ==
    \A i \in UploadCalls :
        (/\ LocalIsFile(i)
         /\ hist[i].args[3]
         /\ FilesAt(hist[i].pre, hist[i].args[2]) # {}) =>
            LET ev == hist[i].events
                r  == CHOOSE x \in FilesAt(hist[i].pre, hist[i].args[2]) : TRUE
            IN  /\ ev # <<>>
                /\ ev[1][1] \in {"remove", "remove-failed"}
                /\ ev[1][2] = r
                /\ \A e \in 1..Len(ev) :
                      ev[e][1] \in {"create", "create-failed"} =>
                          \E e0 \in 1..(e - 1) : ev[e0][1] = "remove" /\ ev[e0][2] = r
                /\ ev[1][1] = "remove-failed" =>
                      /\ hist[i].status = "RuntimeError"
                      /\ hist[i].ret = DeleteFailedMsg
                      /\ Len(ev) = 1
                /\ Kinds(i) = <<"remove", "create">> =>
                      /\ hist[i].status = "return"
                      /\ FilesAt(hist[i].post, hist[i].args[2]) = {r}
                      /\ hist[i].post.data[r] = Uploaded(i)
                      /\ Cardinality({k \in 1..Len(StorageFiles(hist[i].post.tree, <<>>)) :
                                         StorageFiles(hist[i].post.tree, <<>>)[k] = r}) = 1

\* An overwrite whose removal failed, and an overwrite that replaced different
\* bytes.
C13_Witness ==
    /\ \E i \in UploadCalls :
          /\ hist[i].args[3]
          /\ Kinds(i) = <<"remove-failed">>
          /\ hist[i].status = "RuntimeError"
    /\ \E i \in UploadCalls :
          /\ hist[i].args[3]
          /\ Kinds(i) = <<"remove", "create">>
          /\ hist[i].events[1][3] # hist[i].events[2][3]
          /\ hist[i].post.data[hist[i].events[1][2]] = Uploaded(i)

\* The call removed the file at q and its upload then failed.
RemovedThenFailed(i, q) ==
    /\ Kinds(i) = <<"remove", "create-failed">>
    /\ hist[i].events[1][2] = q

\* C16: overwrite is not atomic.  When the removal succeeds and the upload
\* then fails, the call fails with the upload-failed RuntimeError (UploadFailed)
\* and the remote path holds no file; in every sequence of upload calls, a
\* path that held a file before a call holds its previous content or the
\* uploaded bytes after it exactly when the call is not such a call for that
\* path.
C16_OverwriteNotAtomic ==
    \A i \in UploadCalls :
        LocalIsFile(i) =>
            /\ \A q \in DOMAIN hist[i].pre.data :
                  RemovedThenFailed(i, q) =>
                      /\ hist[i].args[3]
                      /\ hist[i].status = "RuntimeError"
                      /\ hist[i].ret = UploadFailedMsg
                      /\ q \notin DOMAIN hist[i].post.data
                      /\ FilesAt(hist[i].post, hist[i].args[2]) = {}
                      /\ q \notin Range(StorageFiles(hist[i].post.tree, <<>>))
            /\ \A q \in DOMAIN hist[i].pre.data :
                  (/\ q \in DOMAIN hist[i].post.data
                   /\ hist[i].post.data[q] \in {hist[i].pre.data[q], Uploaded(i)})
                      <=> ~RemovedThenFailed(i, q)
            /\ (hist[i].status = "return" \/ hist[i].ret = DeleteFailedMsg) =>
                  \A q \in DOMAIN hist[i].pre.data : ~RemovedThenFailed(i, q)

\* An overwrite that removed the old file and failed to upload, leaving the
\* path empty, followed by a call that finds no file there.
C16_Witness ==
    \E i \in UploadCalls, j \in UploadCalls :
        /\ i < j
        /\ RemovedThenFailed(i, <<FolderA, d_zip>>)
        /\ hist[i].ret = UploadFailedMsg
        /\ <<FolderA, d_zip>> \notin DOMAIN hist[i].post.data
        /\ hist[j].args[2] = hist[i].args[2]
        /\ FilesAt(hist[j].pre, hist[j].args[2]) = {}

(***************************************************************************)
(* C15: what a failed Single-File fetch leaves behind.                      *)
(***************************************************************************)
ZenodoCalls == {i \in 1..Len(hist) : hist[i].fn = "zenodo_fetch"}

ZenodoFailures == {"ValueError", "requests.ConnectionError", "requests.HTTPError"}

\* The dataset has no repository id: none was given and the Registry does not
\* list it.
UnknownDataset(args) == args[3] = None /\ args[1] \notin DOMAIN DATASETS

\* C15: a zenodo_fetch call that fails does so with ValueError (UnknownDataset),
\* requests' ConnectionError or HTTPError; it leaves the filesystem as it was,
\* with neither the destination folder nor the destination file created;
\* UnknownDataset is raised without a request; and the same call made again
\* next is not answered from the presence check: it goes through the lookup and
\* the request again.
C15_FailureLeavesFs ==
    \A i \in ZenodoCalls :
        hist[i].status # "return" =>
            /\ hist[i].status \in ZenodoFailures
            /\ hist[i].post = hist[i].pre
            /\ hist[i].post.dirs = hist[i].pre.dirs
            /\ ~Exists(hist[i].post, ZTarget(hist[i].args))
            /\ (hist[i].status = "ValueError") <=> UnknownDataset(hist[i].args)
            /\ hist[i].status = "ValueError" => hist[i].reqs = <<>>
            /\ hist[i].status # "ValueError" =>
                  hist[i].reqs = <<FileUrl(IF hist[i].args[3] = None
                                            THEN DATASETS[hist[i].args[1]].doi
                                            ELSE hist[i].args[3],
                                            hist[i].args[1])>>
            /\ TwiceInARow(i) =>
                  IF UnknownDataset(hist[i].args)
                  THEN hist[i + 1].status = "ValueError"
                  ELSE hist[i + 1].reqs = hist[i].reqs

\* A fetch into a folder that is not there fails on the connection and leaves
\* no folder; the same call made again makes the request and downloads.
C15_Witness ==
    \E i \in ZenodoCalls :
        /\ TwiceInARow(i)
        /\ hist[i].status = "requests.ConnectionError"
        /\ ~Exists(hist[i].pre, hist[i].args[2])
        /\ ~Exists(hist[i].post, hist[i].args[2])
        /\ hist[i + 1].status = "return"
        /\ Len(hist[i + 1].reqs) = 1
        /\ Exists(fs, ZTarget(hist[i].args))

(***************************************************************************)
(* C14: the Grouped Fetcher against the Single-File Fetcher invoked on each *)
(* selected filename in order.                                              *)
(***************************************************************************)
\* zenodo_fetch(fname, folder, doi) for each filename from index k, stopping
\* at the first call that raises.
RECURSIVE zenodo_each(_, _, _, _, _, _)
zenodo_each(names, k, folder, doi, rem, acc) ==
    IF k > Len(names) \/ acc.status # "return" THEN acc
    ELSE LET r == zenodo_fetch(names[k], folder, doi, None, acc.fs, rem[names[k]])
         IN  zenodo_each(names, k + 1, folder, doi, rem,
                 [status |-> r.status,
                  fs     |-> r.fs,
                  paths  |-> IF r.status = "return" THEN Append(acc.paths, r.ret)
                             ELSE acc.paths,
                  reqs   |-> acc.reqs \o r.reqs])

\* What the Single-File Fetcher does for the filenames call i selects, from the
\* filesystem call i found, with call i's folder and repository id.
SingleFileRun(i) ==
    zenodo_each(FlatNames(SelectedGroups(hist[i].args[1])), 1, hist[i].args[2],
                ExpectedDoi(hist[i].args[3]), remote,
                [status |-> "return", fs |-> hist[i].pre, paths |-> <<>>,
                 reqs |-> <<>>])

\* The error kind of the taxonomy an exception stands for.
ErrorKind(status) ==
    CASE status \in {"requests.ConnectionError", "ConnectionError"} -> "ConnectionFailure"
      [] status = "requests.HTTPError" -> "RemoteRequestFailure"
      [] status = "ValueError" -> "UnknownDataset"
      [] OTHER -> "none"

\* C14: for every group, initial filesystem and remote behaviour, rat_fetch
\* and the Single-File Fetcher invoked on each selected filename in order make
\* the same requests, leave the same filesystem (the destination folder
\* included), return the same paths and fail with the same error kind.
C14_EquivalentToSingleFile ==
    \A i \in RatCalls :
        ValidGroupName(hist[i].args[1]) =>
            LET z == SingleFileRun(i)
            IN  /\ hist[i].reqs = z.reqs
                /\ hist[i].post = z.fs
                /\ (hist[i].status = "return") <=> (z.status = "return")
                /\ hist[i].status = "return" => hist[i].ret = z.paths
                /\ ErrorKind(hist[i].status) = ErrorKind(z.status)

\* What the two do have in common: the requests, the files written, whether
\* they return, and the returned paths; rat_fetch always leaves the folder.
C14_SameRequestsAndFiles ==
    \A i \in RatCalls :
        ValidGroupName(hist[i].args[1]) =>
            LET z == SingleFileRun(i)
            IN  /\ hist[i].reqs = z.reqs
                /\ hist[i].post.files = z.fs.files
                /\ hist[i].post.dirs = z.fs.dirs \cup {hist[i].args[2]}
                /\ (hist[i].status = "return") <=> (z.status = "return")
                /\ hist[i].status = "return" => hist[i].ret = z.paths
                /\ hist[i].status # "return" => hist[i].status = "ConnectionError"

\* The filesystem half of C14 alone.
C14_SameFilesystem ==
    \A i \in RatCalls :
        ValidGroupName(hist[i].args[1]) => hist[i].post = SingleFileRun(i).fs

\* The error-kind half of C14 alone.
C14_SameErrorKind ==
    \A i \in RatCalls :
        ValidGroupName(hist[i].args[1]) =>
            ErrorKind(hist[i].status) = ErrorKind(SingleFileRun(i).status)

====
